---- MODULE Spec2Model ----
(***************************************************************************)
(* Selective-repeat sender (A) and receiver (B) of src/sr.c, joined by the *)
(* two FIFO channels of the network emulator.  Every handler of sr.c is    *)
(* one action; the emulator (channel, timer, application) is the           *)
(* environment.                                                            *)
(***************************************************************************)
EXTENDS Integers, Sequences, FiniteSets, TLC

(* ------------------------------------------------------------------ *)
(* Program constants                                                  *)
(* ------------------------------------------------------------------ *)
WINDOWSIZE == 6
SEQSPACE == 7
NOTINUSE == -1
RECV_WINDOWSIZE == 6
PayloadLen == 20

(* ------------------------------------------------------------------ *)
(* Bounds of the model                                                *)
(* ------------------------------------------------------------------ *)
\* packets in flight in one direction; a packet sent into a full channel is lost
MaxChan == 2
\* Spec (lossy, corrupting channel): calls of A_output, timeouts that resend,
\* uncorrupted acks A receives, packets the channel corrupts
MaxMsgs == 2
MaxResent == 1
MaxAcks == 3
MaxCorrupt == 1
\* window-full rejections counted (every specification)
MaxWindowFull == 1
\* SpecFifo (a channel that only delays): calls of A_output, timeouts that resend,
\* uncorrupted acks A receives
FifoMsgs == 7
FifoResent == 1
FifoAcks == 12
\* SpecSender (the sender under any sequence of calls): calls of A_output, timeouts
\* that resend, uncorrupted packets A receives
SenderMsgs == 7
SenderResent == 1
SenderAcks == 3
\* SpecDelay (a channel that delays and never drops): calls of A_output, timeouts
\* that resend, uncorrupted acks A receives
DelayMsgs == 9
DelayResent == 2
DelayAcks == 8

(* ------------------------------------------------------------------ *)
(* State                                                              *)
(* ------------------------------------------------------------------ *)
VARIABLES
    \* sender A
    buffer, acked, window_base, windowcount, A_nextseqnum,
    \* receiver B
    recv_buffer, recv_base, received, B_nextseqnum,
    \* emulator statistics touched by sr.c
    window_full, total_ACKs_received, new_ACKs, packets_resent, packets_received,
    \* emulator: A's timer is armed, the two channels
    timer, chanAB, chanBA,
    \* the process died on an out-of-bounds access
    crashed,
    \* history: calls of A_output so far, messages admitted, payloads handed to layer 5,
    \* packets the channel has corrupted
    nmsgs, admitted, delivered, ncorrupt,
    \* history: for each admitted message, the packet A_output handed to tolayer3
    sent,
    \* history: for each payload handed to layer 5, the seqnum of the packet it came
    \* from and recv_base at that moment
    dlog,
    \* history: for each sequence number, whether the latest packet sent with it
    \* has been marked acknowledged by A_input
    released,
    \* history: an array was indexed out of its bounds
    oob,
    \* history: the last handler call and what it handed to the emulator
    ev,
    \* history: how many calls of the out-of-order ack scenario the calls of A's
    \* handlers so far make up, or -1 when they are not a prefix of it
    scn

senderVars == <<buffer, acked, window_base, windowcount, A_nextseqnum>>
receiverVars == <<recv_buffer, recv_base, received, B_nextseqnum>>
statVars == <<window_full, total_ACKs_received, new_ACKs, packets_resent, packets_received>>
envVars == <<timer, chanAB, chanBA, crashed>>
histVars == <<nmsgs, admitted, sent, delivered, dlog, ncorrupt, released, oob, ev, scn>>
vars == <<senderVars, receiverVars, statVars, envVars, histVars>>

(* ------------------------------------------------------------------ *)
(* Packets and checksum                                               *)
(* ------------------------------------------------------------------ *)
\* C's % truncates towards zero
CMod(a, n) == IF a >= 0 THEN a % n ELSE -((-a) % n)

ComputeChecksum_NoAcknum(packet) ==
    LET p == packet.payload
    IN  packet.seqnum
        + p[1] + p[2] + p[3] + p[4] + p[5] + p[6] + p[7] + p[8] + p[9] + p[10]
        + p[11] + p[12] + p[13] + p[14] + p[15] + p[16] + p[17] + p[18] + p[19] + p[20]

\* seqnum + acknum + payload[0] + ... + payload[19]
ComputeChecksum(packet) ==
    LET p == packet.payload
    IN  packet.seqnum + packet.acknum
        + p[1] + p[2] + p[3] + p[4] + p[5] + p[6] + p[7] + p[8] + p[9] + p[10]
        + p[11] + p[12] + p[13] + p[14] + p[15] + p[16] + p[17] + p[18] + p[19] + p[20]

IsCorrupted(packet) == packet.checksum # ComputeChecksum(packet)

\* a zero-initialised struct pkt (static storage)
ZeroPkt ==
    [seqnum |-> 0, acknum |-> 0, checksum |-> 0, payload |-> [i \in 1..PayloadLen |-> 0]]

\* the k-th message of the application (k = 0, 1, ...): twenty copies of one letter
Message(k) == [i \in 1..PayloadLen |-> 97 + (k % 26)]

Seqs == 0..(SEQSPACE - 1)
Slots == 0..(RECV_WINDOWSIZE - 1)

(* ------------------------------------------------------------------ *)
(* Emulator interface                                                 *)
(* ------------------------------------------------------------------ *)
\* tolayer3: the packet joins the channel, or is lost when the channel is full
ToLayer3(chan, packet) == IF Len(chan) < MaxChan THEN Append(chan, packet) ELSE chan

\* the last handler call: the handler, the branch it took, the packets it handed
\* to tolayer3, the timer commands it issued, the payloads it handed to tolayer5
Event(op, branch, out, tcmds, ndeliv) ==
    [op |-> op, branch |-> branch, out |-> out, tcmds |-> tcmds, ndeliv |-> ndeliv]

(* ------------------------------------------------------------------ *)
(* Sender A                                                           *)
(* ------------------------------------------------------------------ *)
\* the packet A_output builds for a message
MakeDataPkt(seq, message) ==
    LET sendpkt == [seqnum |-> seq, acknum |-> NOTINUSE, checksum |-> 0, payload |-> message]
    IN  [sendpkt EXCEPT !.checksum = ComputeChecksum(sendpkt)]

WindowNotFull_OffByOne == windowcount <= WINDOWSIZE

\* the admission test of A_output
WindowNotFull == windowcount < WINDOWSIZE

\* called from layer 5 with the next message of the application
A_output(message) ==
    /\ IF WindowNotFull
       THEN LET sendpkt == MakeDataPkt(A_nextseqnum, message)
            IN  /\ buffer' = [buffer EXCEPT ![sendpkt.seqnum] = sendpkt]
                /\ acked' = [acked EXCEPT ![sendpkt.seqnum] = FALSE]
                /\ windowcount' = windowcount + 1
                /\ chanAB' = ToLayer3(chanAB, sendpkt)
                /\ timer' = IF windowcount + 1 = 1 THEN TRUE ELSE timer
                /\ A_nextseqnum' = (A_nextseqnum + 1) % SEQSPACE
                /\ admitted' = Append(admitted, message)
                /\ sent' = Append(sent, sendpkt)
                /\ released' = [released EXCEPT ![sendpkt.seqnum] = FALSE]
                /\ ev' = Event("A_output", "admitted", <<sendpkt>>,
                               IF windowcount + 1 = 1 THEN <<"start">> ELSE <<>>, 0)
                /\ UNCHANGED window_full
       ELSE /\ window_full' = window_full + 1
            /\ ev' = Event("A_output", "full", <<>>, <<>>, 0)
            /\ UNCHANGED <<buffer, acked, windowcount, chanAB, timer, A_nextseqnum,
                           admitted, sent, released>>
    /\ UNCHANGED <<window_base, receiverVars, total_ACKs_received, new_ACKs,
                   packets_resent, packets_received, chanBA, crashed, delivered, dlog, oob>>

InWindow_NoWrap(acknum, base) ==
    acknum >= base /\ acknum < (base + WINDOWSIZE) % SEQSPACE

\* the in_window test of A_input
InWindow(acknum, base) ==
    LET win_start == base
        win_end == (base + WINDOWSIZE) % SEQSPACE
    IN  IF win_start < win_end
        THEN acknum >= win_start /\ acknum < win_end
        ELSE acknum >= win_start \/ acknum < win_end

Slide_Once(ack, base, count) ==
    IF ack[base]
    THEN [acked |-> [ack EXCEPT ![base] = FALSE], window_base |-> (base + 1) % SEQSPACE,
          windowcount |-> count - 1]
    ELSE [acked |-> ack, window_base |-> base, windowcount |-> count]

\* while (acked[window_base]) { acked[window_base] = false; window_base++; windowcount--; }
RECURSIVE Slide(_, _, _)
Slide(ack, base, count) ==
    IF ack[base]
    THEN Slide([ack EXCEPT ![base] = FALSE], (base + 1) % SEQSPACE, count - 1)
    ELSE [acked |-> ack, window_base |-> base, windowcount |-> count]

Rearm_Always(ack, base, count) == TRUE

\* the loop after stoptimer: some slot among the first count ones is unacked
Rearm(ack, base, count) ==
    \E i \in 0..(SEQSPACE - 1) : ~ack[(base + i) % SEQSPACE] /\ i < count

\* what reading acked[acknum] can yield: the element when the index is in the
\* array; otherwise any value, or the death of the process
AckedReads(acknum) ==
    IF acknum \in Seqs
    THEN {IF acked[acknum] THEN "true" ELSE "false"}
    ELSE {"true", "false", "crash"}

\* A_input, the branch of an uncorrupted packet
A_inputAck(packet) ==
    /\ total_ACKs_received' = total_ACKs_received + 1
    /\ IF ~InWindow(packet.acknum, window_base)
       THEN /\ ev' = Event("A_input", "outside", <<>>, <<>>, 0)
            /\ UNCHANGED <<acked, window_base, windowcount, timer, new_ACKs,
                           crashed, released, oob>>
       ELSE \E read \in AckedReads(packet.acknum) :
            /\ oob' = (oob \/ packet.acknum \notin Seqs)
            /\ crashed' = (read = "crash")
            /\ IF read = "false"
               THEN LET marked == IF packet.acknum \in Seqs
                                  THEN [acked EXCEPT ![packet.acknum] = TRUE]
                                  ELSE acked
                        slid == Slide(marked, window_base, windowcount)
                        rearm == Rearm(slid.acked, slid.window_base, slid.windowcount)
                    IN  /\ new_ACKs' = new_ACKs + 1
                        /\ acked' = slid.acked
                        /\ window_base' = slid.window_base
                        /\ windowcount' = slid.windowcount
                        /\ timer' = rearm
                        /\ released' = IF packet.acknum \in Seqs
                                       THEN [released EXCEPT ![packet.acknum] = TRUE]
                                       ELSE released
                        /\ ev' = Event("A_input", "new", <<>>,
                                       IF rearm THEN <<"stop", "start">> ELSE <<"stop">>,
                                       0)
               ELSE /\ ev' = Event("A_input",
                                   IF read = "crash" THEN "crash" ELSE "duplicate",
                                   <<>>, <<>>, 0)
                    /\ UNCHANGED <<acked, window_base, windowcount, timer, new_ACKs,
                                   released>>
    /\ UNCHANGED <<buffer, A_nextseqnum, receiverVars, window_full, packets_resent,
                   packets_received, chanAB, admitted, sent, delivered, dlog>>

\* A_input, the branch of a corrupted packet
A_inputCorrupted ==
    /\ ev' = Event("A_input", "corrupted", <<>>, <<>>, 0)
    /\ UNCHANGED <<senderVars, receiverVars, statVars, timer, chanAB, crashed,
                   admitted, sent, delivered, dlog, released, oob>>

A_input_Unchecked(packet) == A_inputAck(packet)

\* called from layer 3 with a packet from B
A_input(packet) ==
    IF ~IsCorrupted(packet) THEN A_inputAck(packet) ELSE A_inputCorrupted

FirstUnacked_Last ==
    LET unacked == {i \in 0..(windowcount - 1) : ~acked[(window_base + i) % SEQSPACE]}
    IN  IF unacked = {} THEN -1
        ELSE CHOOSE i \in unacked : \A j \in unacked : i >= j

\* the first i < windowcount whose slot is unacked, or -1
FirstUnacked ==
    LET unacked == {i \in 0..(windowcount - 1) : ~acked[(window_base + i) % SEQSPACE]}
    IN  IF unacked = {} THEN -1
        ELSE CHOOSE i \in unacked : \A j \in unacked : i <= j

\* called when A's timer goes off
A_timerinterrupt ==
    /\ LET i == FirstUnacked
           seq == (window_base + i) % SEQSPACE
       IN  IF i >= 0
           THEN /\ chanAB' = ToLayer3(chanAB, buffer[seq])
                /\ packets_resent' = packets_resent + 1
                /\ timer' = TRUE
                /\ ev' = Event("A_timerinterrupt", "resend", <<buffer[seq]>>,
                               <<"start">>, 0)
           ELSE /\ timer' = FALSE
                /\ ev' = Event("A_timerinterrupt", "idle", <<>>, <<>>, 0)
                /\ UNCHANGED <<chanAB, packets_resent>>
    /\ UNCHANGED <<senderVars, receiverVars, window_full, total_ACKs_received, new_ACKs,
                   packets_received, chanBA, crashed, admitted, sent, delivered, dlog, released, oob>>

(* ------------------------------------------------------------------ *)
(* Receiver B                                                         *)
(* ------------------------------------------------------------------ *)
\* an ack whose checksum is computed before acknum is filled in
MakeAckPkt_ChecksumFirst(bseq, acknum) ==
    LET sendpkt == [seqnum |-> bseq, acknum |-> NOTINUSE, checksum |-> 0,
                    payload |-> [i \in 1..PayloadLen |-> 48]]
    IN  [sendpkt EXCEPT !.checksum = ComputeChecksum(sendpkt), !.acknum = acknum]

\* the ack B_input builds: seqnum alternates, payload is twenty '0' characters
MakeAckPkt(bseq, acknum) ==
    LET sendpkt == [seqnum |-> bseq, acknum |-> acknum, checksum |-> 0,
                    payload |-> [i \in 1..PayloadLen |-> 48]]
    IN  [sendpkt EXCEPT !.checksum = ComputeChecksum(sendpkt)]

\* one pass of the shift loop: slot i takes slot i+1, the last mark is cleared,
\* the last buffer slot keeps its packet
ShiftMarks(rcvd) ==
    [i \in Slots |-> IF i < RECV_WINDOWSIZE - 1 THEN rcvd[i + 1] ELSE 0]

ShiftBuffer_NoShift(rbuf) == rbuf

ShiftBuffer(rbuf) ==
    [i \in Slots |-> IF i < RECV_WINDOWSIZE - 1 THEN rbuf[i + 1] ELSE rbuf[i]]

\* while (received[0]) { tolayer5; shift; recv_base++ }
RECURSIVE Drain(_, _, _, _)
Drain(rcvd, rbuf, base, out) ==
    IF rcvd[0] # 0
    THEN Drain(ShiftMarks(rcvd), ShiftBuffer(rbuf), (base + 1) % SEQSPACE,
               Append(out, [payload |-> rbuf[0].payload, seqnum |-> rbuf[0].seqnum,
                            base |-> base]))
    ELSE [received |-> rcvd, recv_buffer |-> rbuf, recv_base |-> base, out |-> out]

Accepts_Unchecked(packet, rel_pos) == rel_pos < RECV_WINDOWSIZE

\* the test that lets B_input buffer a packet
Accepts(packet, rel_pos) == ~IsCorrupted(packet) /\ rel_pos < RECV_WINDOWSIZE

\* called from layer 3 with a packet from A
B_input(packet) ==
    /\ LET seqnum == packet.seqnum
           rel_pos == CMod(seqnum - recv_base + SEQSPACE, SEQSPACE)
           accept == Accepts(packet, rel_pos)
           sendpkt == MakeAckPkt(B_nextseqnum, seqnum)
           stored == accept /\ rel_pos \in Slots /\ received[rel_pos] = 0
           rbuf == IF stored THEN [recv_buffer EXCEPT ![rel_pos] = packet] ELSE recv_buffer
           rcvd == IF stored THEN [received EXCEPT ![rel_pos] = 1] ELSE received
           drained == Drain(rcvd, rbuf, recv_base, <<>>)
       IN  /\ B_nextseqnum' = (B_nextseqnum + 1) % 2
           /\ IF accept /\ rel_pos \notin Slots
              THEN \* received[rel_pos] with a negative index, before the ack is sent
                   /\ oob' = TRUE
                   /\ crashed' = TRUE
                   /\ ev' = Event("B_input", "crash", <<>>, <<>>, 0)
                   /\ UNCHANGED <<recv_buffer, recv_base, received, packets_received,
                                  delivered, dlog, chanBA>>
              ELSE /\ chanBA' = ToLayer3(chanBA, sendpkt)
                   /\ recv_buffer' = drained.recv_buffer
                   /\ received' = drained.received
                   /\ recv_base' = drained.recv_base
                   /\ packets_received' = packets_received + Len(drained.out)
                   /\ delivered' = delivered \o [k \in 1..Len(drained.out) |->
                                                   drained.out[k].payload]
                   /\ dlog' = dlog \o [k \in 1..Len(drained.out) |->
                                         [seqnum |-> drained.out[k].seqnum,
                                          base |-> drained.out[k].base]]
                   /\ ev' = Event("B_input",
                                  IF ~accept THEN "rejected"
                                  ELSE IF stored THEN "stored" ELSE "present",
                                  <<sendpkt>>, <<>>, Len(drained.out))
                   /\ UNCHANGED <<oob, crashed>>
    /\ UNCHANGED <<senderVars, window_full, total_ACKs_received, new_ACKs, packets_resent,
                   timer, admitted, sent, released>>

(* ------------------------------------------------------------------ *)
(* Emulator: channels                                                 *)
(* ------------------------------------------------------------------ *)
\* what the channel writes over a field or over the first payload byte
CorruptField == 999999
CorruptByte == 90

CorruptKinds == {"payload", "seqnum", "acknum"}

Corrupt(packet, kind) ==
    CASE kind = "payload" -> [packet EXCEPT !.payload[1] = CorruptByte]
      [] kind = "seqnum" -> [packet EXCEPT !.seqnum = CorruptField]
      [] kind = "acknum" -> [packet EXCEPT !.acknum = CorruptField]

\* the out-of-order ack scenario: WINDOWSIZE calls of A_output, uncorrupted acks
\* for 2, 0 and 1, one more call of A_output
ScnAcks == <<2, 0, 1>>

ScnLen == WINDOWSIZE + Len(ScnAcks) + 1

ScnMatches(k, op, packet) ==
    IF k \in (WINDOWSIZE + 1)..(WINDOWSIZE + Len(ScnAcks))
    THEN /\ op = "A_input"
         /\ ~IsCorrupted(packet)
         /\ packet.acknum = ScnAcks[k - WINDOWSIZE]
    ELSE op = "A_output"

ScnNext(op, packet) ==
    IF scn >= 0 /\ scn < ScnLen /\ ScnMatches(scn + 1, op, packet) THEN scn + 1 ELSE -1

\* the application hands its next message to A
Submit(maxMsgs) ==
    /\ ~crashed
    /\ nmsgs < maxMsgs
    /\ windowcount < WINDOWSIZE \/ window_full < MaxWindowFull
    /\ A_output(Message(nmsgs))
    /\ nmsgs' = nmsgs + 1
    /\ scn' = ScnNext("A_output", ZeroPkt)
    /\ UNCHANGED ncorrupt

\* A's timer goes off
Timeout(maxResent) ==
    /\ ~crashed
    /\ timer
    /\ packets_resent < maxResent
    /\ A_timerinterrupt
    /\ scn' = ScnNext("A_timerinterrupt", ZeroPkt)
    /\ UNCHANGED <<nmsgs, ncorrupt>>

\* the packet at the head of the A-to-B channel arrives at B
DeliverAB ==
    /\ ~crashed
    /\ chanAB # <<>>
    /\ chanAB' = Tail(chanAB)
    /\ B_input(Head(chanAB))
    /\ UNCHANGED <<nmsgs, ncorrupt, scn>>

\* the packet at the head of the B-to-A channel arrives at A
DeliverBA(maxAcks) ==
    /\ ~crashed
    /\ chanBA # <<>>
    /\ total_ACKs_received < maxAcks
    /\ chanBA' = Tail(chanBA)
    /\ A_input(Head(chanBA))
    /\ scn' = ScnNext("A_input", Head(chanBA))
    /\ UNCHANGED <<nmsgs, ncorrupt>>

LoseAB ==
    /\ ~crashed
    /\ chanAB # <<>>
    /\ chanAB' = Tail(chanAB)
    /\ UNCHANGED <<senderVars, receiverVars, statVars, timer, chanBA, crashed, histVars>>

LoseBA ==
    /\ ~crashed
    /\ chanBA # <<>>
    /\ chanBA' = Tail(chanBA)
    /\ UNCHANGED <<senderVars, receiverVars, statVars, timer, chanAB, crashed, histVars>>

CorruptAB ==
    /\ ~crashed
    /\ ncorrupt < MaxCorrupt
    /\ chanAB # <<>>
    /\ ~IsCorrupted(Head(chanAB))
    /\ \E kind \in CorruptKinds :
          /\ Corrupt(Head(chanAB), kind) # Head(chanAB)
          /\ chanAB' = <<Corrupt(Head(chanAB), kind)>> \o Tail(chanAB)
    /\ ncorrupt' = ncorrupt + 1
    /\ UNCHANGED <<senderVars, receiverVars, statVars, timer, chanBA, crashed,
                   nmsgs, admitted, sent, delivered, dlog, released, oob, ev, scn>>

CorruptBA ==
    /\ ~crashed
    /\ ncorrupt < MaxCorrupt
    /\ chanBA # <<>>
    /\ ~IsCorrupted(Head(chanBA))
    /\ \E kind \in CorruptKinds :
          /\ Corrupt(Head(chanBA), kind) # Head(chanBA)
          /\ chanBA' = <<Corrupt(Head(chanBA), kind)>> \o Tail(chanBA)
    /\ ncorrupt' = ncorrupt + 1
    /\ UNCHANGED <<senderVars, receiverVars, statVars, timer, chanAB, crashed,
                   nmsgs, admitted, sent, delivered, dlog, released, oob, ev, scn>>

(* ------------------------------------------------------------------ *)
(* Initial state (after A_init and B_init) and next-state relation    *)
(* ------------------------------------------------------------------ *)
Init ==
    /\ buffer = [s \in Seqs |-> ZeroPkt]
    /\ acked = [s \in Seqs |-> FALSE]
    /\ window_base = 0
    /\ windowcount = 0
    /\ A_nextseqnum = 0
    /\ recv_buffer = [i \in Slots |-> ZeroPkt]
    /\ recv_base = 0
    /\ received = [i \in Slots |-> 0]
    /\ B_nextseqnum = 1
    /\ window_full = 0
    /\ total_ACKs_received = 0
    /\ new_ACKs = 0
    /\ packets_resent = 0
    /\ packets_received = 0
    /\ timer = FALSE
    /\ chanAB = <<>>
    /\ chanBA = <<>>
    /\ crashed = FALSE
    /\ nmsgs = 0
    /\ admitted = <<>>
    /\ sent = <<>>
    /\ delivered = <<>>
    /\ dlog = <<>>
    /\ ncorrupt = 0
    /\ released = [s \in Seqs |-> FALSE]
    /\ oob = FALSE
    /\ ev = Event("init", "init", <<>>, <<>>, 0)
    /\ scn = 0

Next ==
    \/ Submit(MaxMsgs)
    \/ Timeout(MaxResent)
    \/ DeliverAB
    \/ DeliverBA(MaxAcks)
    \/ LoseAB
    \/ LoseBA
    \/ CorruptAB
    \/ CorruptBA

Spec == Init /\ [][Next]_vars

\* the same handlers over a channel that neither corrupts nor drops a packet in
\* flight: it only delays, and timeouts may be premature
NextFifo ==
    \/ Submit(FifoMsgs)
    \/ Timeout(FifoResent)
    \/ DeliverAB
    \/ DeliverBA(FifoAcks)

SpecFifo == Init /\ [][NextFifo]_vars

\* the same handlers over a channel that always has room: the application, the
\* timer and B wait until the channel they send into can take a packet, so that
\* no packet is ever lost; packets are only delayed and timeouts may be premature
NextDelay ==
    \/ (Len(chanAB) < MaxChan /\ Submit(DelayMsgs))
    \/ (Len(chanAB) < MaxChan /\ Timeout(DelayResent))
    \/ (Len(chanBA) < MaxChan /\ DeliverAB)
    \/ DeliverBA(DelayAcks)

SpecDelay == Init /\ [][NextDelay]_vars

\* the packets layer 3 can hand to A_input: an ack of B for any sequence number or
\* for the value the channel writes over a corrupted one, as sent or corrupted
SentAcks == {MakeAckPkt(b, a) : b \in 0..1, a \in Seqs \cup {CorruptField}}

CorruptedAcks == {Corrupt(p, kind) : p \in SentAcks, kind \in CorruptKinds} \ SentAcks

AckPackets == SentAcks \cup CorruptedAcks

\* a packet arrives at A
ArriveA(maxAcks) ==
    /\ ~crashed
    /\ total_ACKs_received < maxAcks
    /\ \E packet \in AckPackets :
          /\ A_input(packet)
          /\ scn' = ScnNext("A_input", packet)
    /\ UNCHANGED <<chanBA, nmsgs, ncorrupt>>

\* the sender alone, under any sequence of calls of its three handlers
NextSender ==
    \/ Submit(SenderMsgs)
    \/ Timeout(SenderResent)
    \/ ArriveA(SenderAcks)

SpecSender == Init /\ [][NextSender]_vars

(* ------------------------------------------------------------------ *)
(* Properties                                                         *)
(* ------------------------------------------------------------------ *)
IsPrefix(s, t) == Len(s) <= Len(t) /\ \A i \in 1..Len(s) : s[i] = t[i]

Range(s) == {s[i] : i \in 1..Len(s)}

\* the sequence numbers of the cyclic interval [base, base + WINDOWSIZE)
CyclicWindow(base) == {(base + i) % SEQSPACE : i \in 0..(WINDOWSIZE - 1)}

\* the sequence numbers of the first windowcount window positions
InFlight == {(window_base + i) % SEQSPACE : i \in 0..(windowcount - 1)}

\* C1: the payloads B has handed to layer 5 are a prefix of the messages A_output
\* admitted: no gap, no duplicate, no reordering.
C1_InOrderDelivery == IsPrefix(delivered, admitted)

\* the sender still holds message m for retransmission
Pending(m) ==
    /\ timer
    /\ \E s \in InFlight : ~acked[s] /\ buffer[s].payload = m

\* an intact copy of message m is on its way to B, or waits in B's buffer
InTransit(m) ==
    \/ \E i \in 1..Len(chanAB) : ~IsCorrupted(chanAB[i]) /\ chanAB[i].payload = m
    \/ \E i \in Slots : received[i] # 0 /\ recv_buffer[i].payload = m

\* C2: no reachable state leaves an admitted message undelivered with no copy of
\* it left to deliver and no retransmission of it to come.
C2_NoAbandonedMessage ==
    \A k \in 1..Len(admitted) :
        LET m == admitted[k]
        IN  m \in Range(delivered) \/ Pending(m) \/ InTransit(m)

\* C3: windowcount never exceeds WINDOWSIZE.
C3_WindowBound == windowcount <= WINDOWSIZE

C3_Witness == windowcount = WINDOWSIZE /\ ev.op = "A_output" /\ ev.branch = "full"

\* C4: windowcount is the number of sequence numbers of the cyclic interval
\* [window_base, A_nextseqnum): 0 <= windowcount <= WINDOWSIZE and
\* A_nextseqnum = (window_base + windowcount) mod SEQSPACE.
C4_WindowConsistent ==
    /\ 0 <= windowcount
    /\ windowcount <= WINDOWSIZE
    /\ A_nextseqnum = (window_base + windowcount) % SEQSPACE

\* a call of A_input with the packet at the head of the B-to-A channel
AckArrives == DeliverBA(MaxAcks)

\* what a call of A_input that ignores its packet leaves behind
AckIgnored ==
    /\ UNCHANGED <<window_base, windowcount, acked, buffer, timer, new_ACKs>>
    /\ ev'.tcmds = <<>>
    /\ total_ACKs_received' = total_ACKs_received + 1

\* C5: an uncorrupted ack whose acknum is none of the WINDOWSIZE sequence numbers
\* of [window_base, window_base + WINDOWSIZE) is ignored: window_base, windowcount,
\* acked, buffer and the timer are unchanged, only total_ACKs_received is incremented.
C5_AckPastWindowIgnored ==
    [][(/\ AckArrives
        /\ ~IsCorrupted(Head(chanBA))
        /\ Head(chanBA).acknum \notin CyclicWindow(window_base))
       => AckIgnored]_vars

\* C6: after six admitted calls of A_output, uncorrupted acks for 2, then 0, then 1
\* slide the window over 0, 1 and the already marked 2, windowcount drops from 6
\* to 3, and the next call of A_output is admitted and transmitted.
C6_OutOfOrderAcks ==
    /\ scn = 6 => window_base = 0 /\ windowcount = 6
    /\ scn = 7 => window_base = 0 /\ windowcount = 6 /\ acked[2]
    /\ scn = 8 => window_base = 1 /\ windowcount = 5 /\ acked[2]
    /\ scn = 9 => /\ window_base = 3
                  /\ windowcount = 3
                  /\ total_ACKs_received = 3
                  /\ \A s \in Seqs : ~acked[s]
    /\ scn = 10 => /\ ev.op = "A_output"
                   /\ ev.branch = "admitted"
                   /\ Len(ev.out) = 1
                   /\ ev.out[1].seqnum = 6
                   /\ windowcount = 4
                   /\ window_full = 0

C6_Witness == scn = ScnLen /\ window_base = 3 /\ A_nextseqnum = 0

\* C7: a call of A_timerinterrupt hands at most one packet to tolayer3; with
\* windowcount >= 1 it is exactly one, the first unacked packet scanning from
\* window_base, and the timer is started once after it; with no unacked packet in
\* the first windowcount positions nothing is sent and the timer is not started.
C7_SelectiveResend ==
    [][A_timerinterrupt =>
       /\ Len(ev'.out) <= 1
       /\ windowcount >= 1 =>
            \E i \in 0..(windowcount - 1) :
                /\ ~acked[(window_base + i) % SEQSPACE]
                /\ \A j \in 0..(i - 1) : acked[(window_base + j) % SEQSPACE]
                /\ ev'.out = <<buffer[(window_base + i) % SEQSPACE]>>
                /\ ev'.tcmds = <<"start">>
                /\ timer'
       /\ (\A s \in InFlight : acked[s]) =>
            /\ ev'.out = <<>>
            /\ ev'.tcmds = <<>>
            /\ chanAB' = chanAB]_vars

C7_Witness ==
    /\ ev.op = "A_timerinterrupt"
    /\ windowcount >= 2
    /\ \E s \in InFlight : s # window_base /\ ~acked[s]
    /\ ev.out = <<buffer[window_base]>>

\* C8: an uncorrupted ack for a packet the sender has already acknowledged changes
\* none of window_base, windowcount, acked, the timer and new_ACKs; it is only
\* counted in total_ACKs_received.
C8_DuplicateAckIgnored ==
    [][(/\ AckArrives
        /\ ~IsCorrupted(Head(chanBA))
        /\ Head(chanBA).acknum \in Seqs
        /\ released[Head(chanBA).acknum])
       => AckIgnored]_vars

\* C9: a call of A_input with a corrupted packet changes no sender state, no
\* counter and the timer, and transmits nothing.
C9_CorruptedAckIgnored ==
    [][(AckArrives /\ IsCorrupted(Head(chanBA)))
       => /\ UNCHANGED <<senderVars, statVars, timer, chanAB>>
          /\ ev'.out = <<>>
          /\ ev'.tcmds = <<>>]_vars

C9_Witness ==
    /\ ev.op = "A_input"
    /\ ev.branch = "corrupted"
    /\ windowcount >= 1
    /\ total_ACKs_received = 0

\* the messages A_output was called with and did not admit
Rejected == {Message(k) : k \in 0..(nmsgs - 1)} \ Range(admitted)

\* C10: a call of A_output with windowcount = WINDOWSIZE hands nothing to tolayer3,
\* issues no timer command, leaves window_base, windowcount, A_nextseqnum, acked and
\* buffer unchanged and increments only window_full; the message is not queued and
\* is not transmitted later.
C10_WindowFullRejection ==
    /\ [][(A_output(Message(nmsgs)) /\ windowcount = WINDOWSIZE)
          => /\ UNCHANGED <<senderVars, timer, chanAB, total_ACKs_received, new_ACKs,
                            packets_resent, packets_received>>
             /\ ev'.out = <<>>
             /\ ev'.tcmds = <<>>
             /\ window_full' = window_full + 1]_vars
    /\ [](\A m \in Rejected :
             /\ \A s \in Seqs : buffer[s].payload # m
             /\ \A i \in 1..Len(chanAB) : chanAB[i].payload # m
             /\ \A i \in 1..Len(ev.out) : ev.out[i].payload # m)

C10_Witness ==
    /\ ev.op = "A_output"
    /\ ev.branch = "full"
    /\ window_full = 1
    /\ Rejected # {}

\* a call of B_input with the packet at the head of the A-to-B channel
DataArrives == DeliverAB

\* C11: every call of B_input hands exactly one packet to tolayer3; its acknum is
\* the seqnum field of the incoming packet and its checksum is valid, whether the
\* incoming packet is corrupted, new, a duplicate or outside the receive window.
C11_ReceiverAlwaysAcks ==
    [][DataArrives
       => /\ Len(ev'.out) = 1
          /\ ev'.out[1].acknum = Head(chanAB).seqnum
          /\ ~IsCorrupted(ev'.out[1])]_vars

\* an uncorrupted packet outside the receive window has been acknowledged
C11_Witness ==
    /\ ev.op = "B_input"
    /\ ev.branch = "rejected"
    /\ ncorrupt = 0
    /\ Len(ev.out) = 1
    /\ ev.out[1].acknum = (recv_base + SEQSPACE - 1) % SEQSPACE

\* C12: a call of B_input with a packet that fails the checksum, or whose
\* (seqnum - recv_base) mod SEQSPACE is RECV_WINDOWSIZE or more, leaves recv_base,
\* received and recv_buffer unchanged and hands nothing to tolayer5.
C12_RejectedPacketNotBuffered ==
    [][(/\ DataArrives
        /\ \/ IsCorrupted(Head(chanAB))
           \/ (Head(chanAB).seqnum - recv_base) % SEQSPACE >= RECV_WINDOWSIZE)
       => /\ UNCHANGED <<recv_base, received, recv_buffer>>
          /\ UNCHANGED <<delivered, dlog, packets_received>>
          /\ ev'.ndeliv = 0]_vars

\* a packet has been rejected while another one waits in the receive buffer
C12_Witness ==
    /\ ev.op = "B_input"
    /\ ev.branch = "rejected"
    /\ \E i \in Slots : received[i] # 0

\* C13: between calls of B_input every occupied slot i holds a packet whose seqnum
\* is (recv_base + i) mod SEQSPACE and slot 0 is empty; every payload handed to
\* tolayer5 came from a packet whose seqnum was recv_base at that moment, and
\* recv_base advances by exactly one (mod SEQSPACE) per delivery.
C13_ReceiverSlots ==
    /\ received[0] = 0
    /\ \A i \in Slots :
          received[i] # 0 => recv_buffer[i].seqnum = (recv_base + i) % SEQSPACE
    /\ Len(dlog) = Len(delivered)
    /\ \A k \in 1..Len(dlog) :
          /\ dlog[k].seqnum = dlog[k].base
          /\ dlog[k].base = (k - 1) % SEQSPACE
    /\ recv_base = Len(dlog) % SEQSPACE

\* the last call of B_input delivered, and shifted a waiting packet to a lower slot
C13_Witness ==
    /\ ev.op = "B_input"
    /\ ev.ndeliv >= 1
    /\ \E i \in Slots : received[i] # 0

\* a call of A_input with the packet at the head of the B-to-A channel (SpecDelay)
AckArrivesDelay == DeliverBA(DelayAcks)

\* C14: for every acknum and window_base in 0..SEQSPACE-1 the in-window test of
\* A_input is true exactly when ((acknum - window_base) mod SEQSPACE) < WINDOWSIZE,
\* that is for the WINDOWSIZE consecutive sequence numbers from window_base and not
\* for the SEQSPACE - WINDOWSIZE after them; and A_input takes its out-of-window
\* return exactly for the acks that are not among these numbers.
C14_CyclicMembership ==
    /\ [](\A acknum \in Seqs, base \in Seqs :
             /\ InWindow(acknum, base) <=> ((acknum - base) % SEQSPACE < WINDOWSIZE)
             /\ InWindow(acknum, base) <=> (acknum \in CyclicWindow(base)))
    /\ [][(AckArrivesDelay /\ ~IsCorrupted(Head(chanBA)))
          => ((ev'.branch = "outside")
                <=> (Head(chanBA).acknum \notin CyclicWindow(window_base)))]_vars

\* an ack just behind the window has been refused at the wraparound base
C14_Witness ==
    /\ ev.op = "A_input"
    /\ ev.branch = "outside"
    /\ window_base = SEQSPACE - 1

\* the values a seqnum or acknum field is changed to, and the values a payload
\* byte is changed to
FieldVals == ((NOTINUSE - 1)..(SEQSPACE + 1)) \cup {CorruptField}

ByteVals == {0, 48, CorruptByte} \cup {97 + k : k \in 0..2}

\* changing exactly one of seqnum, acknum or one payload byte of p is detected
SingleChangeDetected(p) ==
    /\ \A v \in FieldVals \ {p.seqnum} : IsCorrupted([p EXCEPT !.seqnum = v])
    /\ \A v \in FieldVals \ {p.acknum} : IsCorrupted([p EXCEPT !.acknum = v])
    /\ \A j \in 1..PayloadLen :
          \A b \in ByteVals \ {p.payload[j]} : IsCorrupted([p EXCEPT !.payload[j] = b])

\* C15: a packet whose checksum field has just been set to ComputeChecksum of it is
\* not corrupted, for any seqnum, acknum and payload of the domain; every packet
\* A_output, A_timerinterrupt and B_input hand to tolayer3 is not corrupted, and
\* changing exactly one of its seqnum, acknum or payload bytes makes it corrupted.
C15_ChecksumSymmetry ==
    /\ \A seq \in FieldVals, ack \in FieldVals, k \in 0..2 :
          LET p == [seqnum |-> seq, acknum |-> ack, checksum |-> 0, payload |-> Message(k)]
              stamped == [p EXCEPT !.checksum = ComputeChecksum(p)]
          IN  ~IsCorrupted(stamped) /\ SingleChangeDetected(stamped)
    /\ [](\A i \in 1..Len(ev.out) :
             ~IsCorrupted(ev.out[i]) /\ SingleChangeDetected(ev.out[i]))

\* B_input has sent an ack that echoes a seqnum the channel overwrote
C15_Witness ==
    /\ ev.op = "B_input"
    /\ Len(ev.out) = 1
    /\ ev.out[1].acknum = CorruptField
    /\ ev.out[1].checksum = ComputeChecksum(ev.out[1])

\* C16: after every call of a sender handler the timer is armed exactly when
\* windowcount >= 1, and starttimer is never issued while the timer is armed:
\* A_output starts it only when it is not running, A_input only after stoptimer,
\* A_timerinterrupt only once, after the timer has gone off.
C16_SingleTimer ==
    /\ [](timer <=> windowcount >= 1)
    /\ [](ev.op = "A_input" => ev.tcmds \in {<<>>, <<"stop">>, <<"stop", "start">>})
    /\ [](ev.op = "A_timerinterrupt" => ev.tcmds \in {<<>>, <<"start">>})
    /\ [](ev.op = "A_output" => ev.tcmds \in {<<>>, <<"start">>})
    /\ [][(A_output(Message(nmsgs)) /\ ev'.tcmds # <<>>)
          => ~timer /\ windowcount = 0]_vars

\* an ack has slid the window and the timer was started again for the packets left
C16_Witness ==
    /\ ev.op = "A_input"
    /\ ev.tcmds = <<"stop", "start">>
    /\ window_base >= 1
    /\ windowcount >= 1
    /\ timer

\* the admitted messages (by position in sent) that are the latest sent with their
\* sequence number and that A_input has not marked acknowledged since
Unacknowledged ==
    {k \in 1..Len(sent) :
        /\ \A j \in (k + 1)..Len(sent) : sent[j].seqnum # sent[k].seqnum
        /\ ~released[sent[k].seqnum]}

OldestUnacknowledged == CHOOSE k \in Unacknowledged : \A j \in Unacknowledged : k <= j

\* C17: each of the first windowcount window slots of buffer holds the packet first
\* sent for the message in flight there; A_output never overwrites the slot of a
\* message still unacknowledged; every packet A_timerinterrupt resends is the one
\* first sent for the oldest unacknowledged message.
C17_RetransmissionFidelity ==
    /\ [](\A i \in 0..(windowcount - 1) :
             LET k == Len(sent) - windowcount + i + 1
             IN  k \in 1..Len(sent) /\ buffer[(window_base + i) % SEQSPACE] = sent[k])
    /\ [][(A_output(Message(nmsgs)) /\ Len(ev'.out) = 1)
          => /\ A_nextseqnum \notin InFlight
             /\ \A k \in Unacknowledged : sent[k].seqnum # A_nextseqnum]_vars
    /\ [][(A_timerinterrupt /\ Len(ev'.out) = 1)
          => /\ Unacknowledged # {}
             /\ ev'.out[1] = sent[OldestUnacknowledged]]_vars

\* C20: whenever a message that A_output admitted and transmitted has not been
\* marked acknowledged by A_input since, the retransmission timer is armed.
C20_TimerCoversUnacknowledged == Unacknowledged # {} => timer

\* B has accepted an uncorrupted copy of message m: it has handed it to layer 5 or
\* holds it in its buffer
AcceptedByB(m) ==
    \/ m \in Range(delivered)
    \/ \E i \in Slots : received[i] # 0 /\ recv_buffer[i].payload = m

\* C18: a message the sender has released (A_input marked its sequence number
\* acknowledged after the message was sent) is a message of which B has accepted an
\* uncorrupted copy.
C18_ReleaseOnlyAfterAccept ==
    \A k \in 1..Len(sent) :
        (/\ \A j \in (k + 1)..Len(sent) : sent[j].seqnum # sent[k].seqnum
         /\ released[sent[k].seqnum])
        => AcceptedByB(sent[k].payload)

\* C19: A_input never indexes acked[] outside 0..SEQSPACE-1 and B_input never
\* indexes received[] or recv_buffer[] outside 0..RECV_WINDOWSIZE-1.
C19_NoOutOfBoundsIndex == ~oob

====
